---------------------------- MODULE Spec2Model ----------------------------
(***************************************************************************)
(* A model of lib/data_stores/sqlite_data_store.py: the connection cache   *)
(* (SqliteConnectionCache over utils.FastStore), the per-file connection   *)
(* (SqliteConnection), the data store facade (SqliteDataStore) and the     *)
(* lease transaction (SqliteTransaction).                                  *)
(*                                                                         *)
(* One database file per subject: ResolveSubjectDestination and            *)
(* ConvertStringToFilename are taken to be injective on the subjects of    *)
(* the model, so a subject names its file.                                 *)
(***************************************************************************)
EXTENDS Integers, Sequences, FiniteSets, TLC

(***************************************************************************)
(* Bounds of the model.                                                    *)
(***************************************************************************)
NumSubjects == 3      \* subjects are 1..NumSubjects
max_size    == 2      \* capacity of the connection cache (FastStore._limit)
MaxCells    == 2      \* rows of tbl, summed over all files
MaxTs       == 2      \* explicit timestamps are 1..MaxTs
NumThreads  == 2      \* threads are 1..NumThreads
NumTx       == 3      \* transaction objects are 1..NumTx
MaxNow      == 3      \* the clock runs from 1 to MaxNow
MaxLease    == 2      \* lease times and durations are 1..MaxLease

Subjects   == 1..NumSubjects
\* The subjects of the calls made one after the other (SpecStore, SpecLease);
\* the threads of SpecConc call on every subject.
CallSubjects == 1..(NumSubjects - 1)
Threads    == 1..NumThreads
TxIds      == 1..NumTx
Timestamps == 1..MaxTs
Leases     == 1..MaxLease
\* A connection object is garbage once it is closed and nothing refers to it;
\* its identity may then be used again.  This many identities always suffice.
ConnIds    == 1..(max_size + NumThreads + 1)

VARIABLES
  now,        \* time.time(), in seconds
  disk,       \* disk[s]: the committed content of the file of subject s
  conn,       \* conn[c]: the SqliteConnection object c
  age,        \* FastStore._age: the cached subjects, least recently used first
  hash,       \* FastStore._hash: subject -> connection (0: not cached)
  cachelock,  \* owner of FastStore.lock (0: free)
  tx,         \* tx[i]: the SqliteTransaction object i
  pc,         \* pc[t]: where thread t is in its operation
  local,      \* local[t]: the operation of thread t and its local variables
  last        \* the last call that returned, with what it returned or raised

vars == <<now, disk, conn, age, hash, cachelock, tx, pc, local, last>>

(***************************************************************************)
(* Values, encoding and decoding.                                          *)
(*                                                                         *)
(* A value is <<kind, text>>: an integer ("int"), a byte string ("str"),   *)
(* a unicode string ("unicode"), each with the text SmartStr gives it.     *)
(***************************************************************************)
IntFive  == <<"int", "5">>
StrX     == <<"str", "x">>
Values   == {IntFive, StrX}

Predicates == {"aff4:size", "task:1"}

\* The index order of predicates (the order of tbl_index).
PredOrd(p) == IF p = "aff4:size" THEN 1 ELSE 2

\* SqliteDataStore._attribute_types: the registered type of a predicate.
AttributeType(p) == IF p = "aff4:size" THEN "integer" ELSE "bytes"

\* The texts int() accepts.
Numeric(b) == b \in {"5"}

\* SqliteDataStore._Encode: buffer(utils.SmartStr(value)).
Encode(attr, value) == value[2]

DecodeError == <<"ValueError", "">>

\* SqliteDataStore._Decode.
Decode(attribute, value) ==
  LET required_type == AttributeType(attribute) IN
  IF required_type \in {"integer", "unsigned_integer"}
    THEN IF Numeric(value) THEN <<"int", value>> ELSE DecodeError
    ELSE IF required_type = "string" THEN <<"unicode", value>>
    ELSE <<"str", value>>

(***************************************************************************)
(* Files and connections.                                                  *)
(***************************************************************************)
NoLock    == <<>>                         \* no row of table lock for the subject
EmptyFile == [tbl |-> <<>>, lock |-> NoLock]   \* the template database

NoConn == [subject |-> 0, open |-> FALSE, dirty |-> FALSE, view |-> EmptyFile,
           owner |-> 0]

Row(p, ts, v) == [predicate |-> p, timestamp |-> ts, value |-> v]

TotalCells(d) ==
  LET RECURSIVE Sum(_)
      Sum(S) == IF S = {} THEN 0
                ELSE LET s == CHOOSE x \in S : TRUE
                     IN Len(d[s].tbl) + Sum(S \ {s})
  IN Sum(Subjects)

(***************************************************************************)
(* SqliteConnection: the statements, as functions of the connection's view *)
(* of its file (the committed content plus its own uncommitted changes).   *)
(* tbl is kept in insertion (rowid) order.                                 *)
(***************************************************************************)
\* SqliteRegexpFunction: re.search of the pattern in the predicate.
Regexes == {"aff4:", "task:", ":"}
SqliteRegexpFunction(expr, item) ==
  \/ expr = ":"
  \/ expr = "aff4:" /\ item = "aff4:size"
  \/ expr = "task:" /\ item = "task:1"

\* The order of tbl_index (subject, predicate, timestamp).
IndexBefore(a, b) ==
  \/ PredOrd(a.predicate) < PredOrd(b.predicate)
  \/ a.predicate = b.predicate /\ a.timestamp < b.timestamp

RECURSIVE IndexInsert(_, _)
IndexInsert(s, r) ==
  IF s = <<>> THEN <<r>>
  ELSE IF IndexBefore(r, s[Len(s)])
         THEN Append(IndexInsert(SubSeq(s, 1, Len(s) - 1), r), s[Len(s)])
         ELSE Append(s, r)

RECURSIVE IndexScan(_)
\* The rows in the order a scan of tbl_index visits them: by predicate, then
\* timestamp, then rowid.
IndexScan(s) ==
  IF s = <<>> THEN <<>>
  ELSE IndexInsert(IndexScan(SubSeq(s, 1, Len(s) - 1)), s[Len(s)])

\* A faulty LIMIT: the clause is never added to the query.
LimitNever(s, limit) == s

\* SQL LIMIT: "if limit:" adds it, so None and 0 both mean no limit.
Limit(s, limit) ==
  IF limit > 0 /\ Len(s) > limit THEN SubSeq(s, 1, limit) ELSE s

GetLock(view) == view.lock

SetLock(view, expires, token) == [view EXCEPT !.lock = <<expires, token>>]

RemoveLock(view) == [view EXCEPT !.lock = NoLock]

\* ORDER BY timestamp DESC LIMIT 1: the last row of the index scan; <<>> is None.
GetNewestValue(view, predicate) ==
  LET rows == IndexScan(SelectSeq(view.tbl, LAMBDA r : r.predicate = predicate))
  IN IF rows = <<>> THEN <<>>
     ELSE <<rows[Len(rows)].value, rows[Len(rows)].timestamp>>

\* GROUP BY predicate with MAX(timestamp): one row per predicate, the first row
\* of the scan that has the predicate's greatest timestamp.
GetNewestFromRegex(view, regex, limit) ==
  LET rows == IndexScan(SelectSeq(view.tbl,
                 LAMBDA r : SqliteRegexpFunction(regex, r.predicate)))
      IsMax(i) == /\ \A j \in 1..Len(rows) :
                       rows[j].predicate = rows[i].predicate
                         => rows[j].timestamp <= rows[i].timestamp
                  /\ \A j \in 1..(i - 1) :
                       rows[j].predicate = rows[i].predicate
                         => rows[j].timestamp < rows[i].timestamp
      RECURSIVE Groups(_)
      Groups(i) == IF i > Len(rows) THEN <<>>
                   ELSE IF IsMax(i)
                     THEN <<<<rows[i].predicate, rows[i].value,
                              rows[i].timestamp>>>> \o Groups(i + 1)
                     ELSE Groups(i + 1)
  IN Limit(Groups(1), limit)

GetValuesFromRegex(view, regex, start, end, limit) ==
  LET rows == IndexScan(SelectSeq(view.tbl,
                 LAMBDA r : /\ SqliteRegexpFunction(regex, r.predicate)
                            /\ r.timestamp >= start /\ r.timestamp <= end))
  IN Limit([i \in 1..Len(rows) |->
              <<rows[i].predicate, rows[i].value, rows[i].timestamp>>], limit)

GetValues(view, predicate, start, end, limit) ==
  LET rows == IndexScan(SelectSeq(view.tbl,
                 LAMBDA r : /\ r.predicate = predicate
                            /\ r.timestamp >= start /\ r.timestamp <= end))
  IN Limit([i \in 1..Len(rows) |-> <<rows[i].value, rows[i].timestamp>>], limit)

\* A faulty DeleteAttribute: it deletes the newest cell of the predicate only.
DeleteAttributeNewestOnly(view, predicate) ==
  [view EXCEPT !.tbl = SelectSeq(@, LAMBDA r :
     \/ r.predicate # predicate
     \/ \E q \in 1..Len(view.tbl) :
          /\ view.tbl[q].predicate = predicate
          /\ view.tbl[q].timestamp > r.timestamp)]

DeleteAttribute(view, predicate) ==
  [view EXCEPT !.tbl = SelectSeq(@, LAMBDA r : r.predicate # predicate)]

SetAttribute(view, predicate, value, timestamp) ==
  [view EXCEPT !.tbl = Append(@, Row(predicate, timestamp, value))]

\* A faulty DeleteAttributeRange: the end of the range is excluded.
DeleteAttributeRangeExclusive(view, predicate, start, end) ==
  [view EXCEPT !.tbl = SelectSeq(@, LAMBDA r :
     ~(r.predicate = predicate /\ r.timestamp >= start /\ r.timestamp < end))]

DeleteAttributeRange(view, predicate, start, end) ==
  [view EXCEPT !.tbl = SelectSeq(@, LAMBDA r :
     ~(r.predicate = predicate /\ r.timestamp >= start /\ r.timestamp <= end))]

ConnDeleteAttributesRegex(view, regex) ==
  [view EXCEPT !.tbl = SelectSeq(@, LAMBDA r :
     ~SqliteRegexpFunction(regex, r.predicate))]

ConnDeleteSubject(view) == [view EXCEPT !.tbl = <<>>]

(***************************************************************************)
(* The store: the cache and the connection objects over the files.  A      *)
(* world is the record of age, hash, conn and disk; the operators below    *)
(* give the world after a method has run.                                  *)
(***************************************************************************)
World == [age |-> age, hash |-> hash, conn |-> conn, disk |-> disk]

\* The connections some thread holds in a local variable.
Held == {local[t].c : t \in Threads} \ {0}

\* A closed connection that nothing refers to is garbage.
Collect(w, refs) ==
  [w EXCEPT !.conn = [c \in ConnIds |->
     IF ~w.conn[c].open /\ c \notin refs
          /\ \A s \in Subjects : w.hash[s] # c
       THEN NoConn ELSE w.conn[c]]]

\* SqliteConnection.__init__: sqlite3.connect on the file of the subject.
OpenConnection(w, c, subject) ==
  [w EXCEPT !.conn[c] = [subject |-> subject, open |-> TRUE, dirty |-> FALSE,
                         view |-> w.disk[subject], owner |-> 0]]

\* SqliteConnection.Flush: commit, unless the connection is closed.
Flush(w, c) ==
  IF w.conn[c].open
    THEN [w EXCEPT !.disk[w.conn[c].subject] = w.conn[c].view]
    ELSE w

\* SqliteConnection.Close, once its lock is held.  (On a closed connection
\* cursor.close() raises AttributeError and nothing changes.)
Close(w, c) ==
  IF ~w.conn[c].open THEN w
  ELSE [(IF w.conn[c].dirty THEN Flush(w, c) ELSE w)
          EXCEPT !.conn[c].open = FALSE, !.conn[c].view = EmptyFile]

\* SqliteConnectionCache.KillObject.
KillObject(w, c) == Close(w, c)

\* A faulty __exit__: the dirty flag is cleared and nothing is flushed.
ExitNoFlush(w, c) == [w EXCEPT !.conn[c].dirty = FALSE]

\* SqliteConnection.__exit__, up to the release of the lock.
Exit(w, c) ==
  [(IF w.conn[c].dirty THEN Flush(w, c) ELSE w) EXCEPT !.conn[c].dirty = FALSE]

Remove(seq, x) == SelectSeq(seq, LAMBDA y : y # x)

\* FastStore.Get on a cached key: the entry becomes the most recently used.
FastStoreGet(w, key) == [w EXCEPT !.age = Append(Remove(w.age, key), key)]

\* FastStore.Put: the entry is inserted as the most recently used one.
FastStorePut(w, key, obj) ==
  [w EXCEPT !.hash[key] = obj, !.age = Append(Remove(w.age, key), key)]

\* FastStore.Expire: the keys to evict, least recently used first.
ExpireKeys(w) ==
  IF Len(w.age) > max_size THEN SubSeq(w.age, 1, Len(w.age) - max_size)
  ELSE <<>>

\* The eviction of one key: KillObject on its connection, then its removal.
ExpireKey(w, key) ==
  [KillObject(w, w.hash[key]) EXCEPT !.age = Remove(@, key), !.hash[key] = 0]

\* The least connection identity that is free.
NewConn(w, refs) ==
  LET Free(c) == /\ ~w.conn[c].open /\ c \notin refs
                 /\ \A s \in Subjects : w.hash[s] # c
  IN CHOOSE c \in ConnIds : Free(c) /\ \A d \in ConnIds : Free(d) => c <= d

\* The connection of a subject that is not cached: opened, then put.
CacheMiss(w, subject, c) ==
  FastStorePut(OpenConnection(w, c, subject), subject, c)

\* A faulty Get: the new connection is put and nothing is expired.
CacheGetNoExpire(w, subject, refs) ==
  IF w.hash[subject] # 0
    THEN [w |-> FastStoreGet(w, subject), c |-> w.hash[subject], kill |-> <<>>]
    ELSE LET New(c) == [w |-> CacheMiss(w, subject, c), c |-> c, kill |-> <<>>]
         IN New(NewConn(w, refs))

\* A faulty Get: a cached connection is returned as it is found in _hash,
\* and its age is left alone.
CacheGetNoTouch(w, subject, refs) ==
  IF w.hash[subject] # 0
    THEN [w |-> w, c |-> w.hash[subject], kill |-> <<>>]
    ELSE LET Miss(c, w1) == [w |-> w1, c |-> c, kill |-> ExpireKeys(w1)]
             New(c)      == Miss(c, CacheMiss(w, subject, c))
         IN New(NewConn(w, refs))

\* A faulty Get: it does not look the subject up and opens a connection.
CacheGetAlwaysOpen(w, subject, refs) ==
  LET Miss(c, w1) == [w |-> w1, c |-> c, kill |-> ExpireKeys(w1)]
      New(c)      == Miss(c, CacheMiss(w, subject, c))
  IN New(NewConn(w, refs))

\* SqliteConnectionCache.Get under the cache lock, up to the evictions: the
\* world, the connection returned and the keys to evict, in order.
CacheGet(w, subject, refs) ==
  IF w.hash[subject] # 0
    THEN [w |-> FastStoreGet(w, subject), c |-> w.hash[subject], kill |-> <<>>]
    ELSE LET Miss(c, w1) == [w |-> w1, c |-> c, kill |-> ExpireKeys(w1)]
             New(c)      == Miss(c, CacheMiss(w, subject, c))
         IN New(NewConn(w, refs))

RECURSIVE ExpireAll(_, _)
ExpireAll(w, keys) ==
  IF keys = <<>> THEN w
  ELSE ExpireAll(ExpireKey(w, keys[1]), SubSeq(keys, 2, Len(keys)))

\* SqliteConnectionCache.Get when no other thread holds a lock.
Get(w, subject, refs) ==
  LET Evict(g) == [w |-> ExpireAll(g.w, g.kill), c |-> g.c]
  IN Evict(CacheGet(w, subject, refs))

(***************************************************************************)
(* SqliteDataStore: what the body of each "with self.cache.Get(subject)"   *)
(* block does to the view of the connection.  A body gives the view after  *)
(* it, what it raised ("" for nothing), what it returns, whether it        *)
(* executed a mutating statement and whether it executed any statement.    *)
(***************************************************************************)
None == <<>>          \* an optional integer is <<>> or <<n>>

\* (2 ** 63) - 1, held to the integers of the model checker.
MaxInt == 2147483647

Done(view, raised, ret, wrote, touched) ==
  [view |-> view, raised |-> raised, ret |-> ret, wrote |-> wrote,
   touched |-> touched]

\* An element of a value list: a value, or the pair of a value and a timestamp
\* (ts = None for a bare value); bad when long(element_timestamp) raises.
Item(v, ts, bad) == [v |-> v, ts |-> ts, bad |-> bad]

RECURSIVE DeleteAll(_, _)
DeleteAll(view, attributes) ==
  IF attributes = <<>> THEN view
  ELSE DeleteAll(DeleteAttribute(view, attributes[1]),
                 SubSeq(attributes, 2, Len(attributes)))

\* values.items() as the sequence of <<attribute, v>>, in iteration order.
RECURSIVE Flatten(_)
Flatten(values) ==
  IF values = <<>> THEN <<>>
  ELSE [i \in 1..Len(values[1][2]) |-> <<values[1][1], values[1][2][i]>>]
         \o Flatten(SubSeq(values, 2, Len(values)))

RECURSIVE SetAll(_, _, _, _)
\* The insert loop of MultiSet: it stops where long() raises.
SetAll(view, elements, timestamp, wrote) ==
  IF elements = <<>> THEN Done(view, "", <<>>, wrote, wrote)
  ELSE LET attribute == elements[1][1]
           v         == elements[1][2]
           element_timestamp == IF v.ts = None THEN timestamp ELSE v.ts[1]
       IN IF v.bad THEN Done(view, "ValueError", <<>>, wrote, wrote)
          ELSE SetAll(SetAttribute(view, attribute, Encode(attribute, v.v),
                                   element_timestamp),
                      SubSeq(elements, 2, Len(elements)), timestamp, TRUE)

Keys(values) == [i \in 1..Len(values) |-> values[i][1]]

\* The time MultiSet takes for a call without timestamp, in microseconds.
DefaultTimestamp == now * 1000000

\* A faulty MultiSet: replace does not add the written predicates to to_delete.
MultiSetBodyNoReplace(view, values, timestamp, replace, to_delete) ==
  LET ts == IF timestamp = None THEN DefaultTimestamp ELSE timestamp[1]
  IN SetAll(DeleteAll(view, to_delete), Flatten(values), ts, to_delete # <<>>)

MultiSetBody(view, values, timestamp, replace, to_delete) ==
  LET ts  == IF timestamp = None THEN DefaultTimestamp ELSE timestamp[1]
      del == IF replace THEN to_delete \o Keys(values) ELSE to_delete
  IN SetAll(DeleteAll(view, del), Flatten(values), ts, del # <<>>)

RECURSIVE DeleteAllRange(_, _, _, _)
DeleteAllRange(view, attributes, start, end) ==
  IF attributes = <<>> THEN view
  ELSE DeleteAllRange(DeleteAttributeRange(view, attributes[1], start, end),
                      SubSeq(attributes, 2, Len(attributes)), start, end)

DeleteAttributesBody(view, attributes, start, end) ==
  IF start = None /\ end = None
    THEN Done(DeleteAll(view, attributes), "", <<>>,
              attributes # <<>>, attributes # <<>>)
    ELSE LET s == IF start = None THEN 0 ELSE start[1]
             e == IF end = None THEN MaxInt ELSE end[1]
         IN Done(DeleteAllRange(view, attributes, s, e), "", <<>>,
                 attributes # <<>>, attributes # <<>>)

RECURSIVE DeleteAllRegex(_, _)
DeleteAllRegex(view, regexes) ==
  IF regexes = <<>> THEN view
  ELSE DeleteAllRegex(ConnDeleteAttributesRegex(view, regexes[1]),
                      SubSeq(regexes, 2, Len(regexes)))

DeleteAttributesRegexBody(view, regexes) ==
  Done(DeleteAllRegex(view, regexes), "", <<>>, regexes # <<>>, regexes # <<>>)

DeleteSubjectBody(view) == Done(ConnDeleteSubject(view), "", <<>>, TRUE, TRUE)

\* The timestamp argument of the resolve calls.
NEWEST_TIMESTAMP == [kind |-> "NEWEST_TIMESTAMP", start |-> 0, end |-> 0]
ALL_TIMESTAMPS   == [kind |-> "ALL_TIMESTAMPS", start |-> 0, end |-> 0]
Range(start, end) == [kind |-> "range", start |-> start, end |-> end]

\* SqliteDataStore._GetStartEndTimestamp.
GetStartEndTimestamp(timestamp) ==
  IF timestamp = ALL_TIMESTAMPS THEN <<0, MaxInt>>
  ELSE IF timestamp = NEWEST_TIMESTAMP THEN <<0 - 1, 0 - 1>>
  ELSE <<timestamp.start, timestamp.end>>

RECURSIVE DecodeAll(_, _)
\* The decode loop over the rows <<predicate, value, ts>> of one query:
\* the results appended before _Decode raises, and whether it raised.
DecodeAll(data, results) ==
  IF data = <<>> THEN [results |-> results, raised |-> ""]
  ELSE IF Decode(data[1][1], data[1][2]) = DecodeError
    THEN [results |-> results, raised |-> "ValueError"]
    ELSE DecodeAll(SubSeq(data, 2, Len(data)),
                   Append(results, <<data[1][1], Decode(data[1][1], data[1][2]),
                                     data[1][3]>>))

RECURSIVE ResolveRegexLoop(_, _, _, _, _)
ResolveRegexLoop(view, predicate_regex, timestamp, limit, results) ==
  IF predicate_regex = <<>> THEN Done(view, "", results, FALSE, TRUE)
  ELSE IF limit > 0 /\ Len(results) >= limit
    THEN Done(view, "", results, FALSE, TRUE)
  ELSE
    LET regex     == predicate_regex[1]
        new_limit == IF limit > 0 THEN limit - Len(results) ELSE limit
        se        == GetStartEndTimestamp(timestamp)
        Decoded(d) ==
          IF d.raised # "" THEN Done(view, d.raised, <<>>, FALSE, TRUE)
          ELSE ResolveRegexLoop(view,
                 SubSeq(predicate_regex, 2, Len(predicate_regex)),
                 timestamp, limit, d.results)
    IN Decoded(DecodeAll(
         IF timestamp = NEWEST_TIMESTAMP
           THEN GetNewestFromRegex(view, regex, new_limit)
           ELSE GetValuesFromRegex(view, regex, se[1], se[2], new_limit),
         results))

\* The body of ResolveRegex; limit 0 stands for None ("if limit" is false for both).
ResolveRegexBody(view, predicate_regex, timestamp, limit) ==
  [ResolveRegexLoop(view, predicate_regex, timestamp, limit, <<>>)
     EXCEPT !.touched = predicate_regex # <<>>]

\* What ResolveMulti gets for one predicate, as rows <<predicate, value, ts>>.
ResolveMultiData(view, predicate, timestamp, new_limit) ==
  LET se == GetStartEndTimestamp(timestamp)
      Newest(ret) == IF ret = <<>> THEN <<>>
                     ELSE <<<<predicate, ret[1], ret[2]>>>>
      All(values) == [i \in 1..Len(values) |->
                        <<predicate, values[i][1], values[i][2]>>]
  IN IF timestamp = NEWEST_TIMESTAMP
       THEN Newest(GetNewestValue(view, predicate))
       ELSE All(GetValues(view, predicate, se[1], se[2], new_limit))

RECURSIVE ResolveMultiLoop(_, _, _, _, _)
ResolveMultiLoop(view, predicates, timestamp, limit, results) ==
  IF predicates = <<>> THEN Done(view, "", results, FALSE, TRUE)
  ELSE
    LET new_limit == IF limit > 0 THEN limit - Len(results) ELSE limit
        Decoded(d) ==
          IF d.raised # "" THEN Done(view, d.raised, <<>>, FALSE, TRUE)
          ELSE IF limit > 0 /\ Len(d.results) >= limit
            THEN Done(view, "", d.results, FALSE, TRUE)
          ELSE ResolveMultiLoop(view, SubSeq(predicates, 2, Len(predicates)),
                                timestamp, limit, d.results)
    IN Decoded(DecodeAll(
         ResolveMultiData(view, predicates[1], timestamp, new_limit), results))

\* The body of ResolveMulti.
ResolveMultiBody(view, predicates, timestamp, limit) ==
  [ResolveMultiLoop(view, predicates, timestamp, limit, <<>>)
     EXCEPT !.touched = predicates # <<>>]

(***************************************************************************)
(* The calls of the facade, each as one step: no other thread runs, so no  *)
(* lock is ever waited for.  The gate, CheckDataStoreAccess, is outside    *)
(* the file: granted is its verdict on the caller's token.                 *)
(***************************************************************************)
Install(w) ==
  /\ age' = w.age /\ hash' = w.hash /\ conn' = w.conn /\ disk' = w.disk

\* The call l was MultiSet(S, {P: [v]}, t, replace=True) and returned.
OneValueReplace(l) ==
  /\ l.op = "MultiSet" /\ l.granted /\ l.raised = ""
  /\ l.arg.replace /\ l.arg.timestamp # None
  /\ Len(l.arg.values) = 1 /\ Len(l.arg.values[1][2]) = 1
  /\ l.arg.values[1][2][1].ts = None

Written(l) ==
  [P |-> l.arg.values[1][1], v |-> l.arg.values[1][2][1].v,
   t |-> l.arg.timestamp[1]]

\* The value is one that _Decode gives back as it was written.
RoundTrips(P, v) == Decode(P, Encode(P, v)) = v

\* The calls l then m were two MultiSet calls with replace=True that wrote one
\* value each to the same (S, P), at distinct timestamps, values that round-trip.
Follows(l, m) ==
  /\ OneValueReplace(l) /\ OneValueReplace(m)
  /\ m.subject = l.subject /\ Written(m).P = Written(l).P
  /\ Written(m).t # Written(l).t
  /\ RoundTrips(Written(l).P, Written(l).v)
  /\ RoundTrips(Written(m).P, Written(m).v)

NoCall == [op |-> "", subject |-> 0, arg |-> <<>>, granted |-> TRUE,
           raised |-> "", ret |-> <<>>, second |-> FALSE]

\* The record of a call that has returned: arg is the arguments of a MultiSet
\* call (<<>> for the other calls), ret what a resolve call returned, second
\* whether the call is the second of two writes in the sense of Follows.
Return(op, subject, arg, granted, raised, ret) ==
  LET m == [NoCall EXCEPT !.op = op, !.subject = subject, !.arg = arg,
                          !.granted = granted, !.raised = raised, !.ret = ret]
  IN [m EXCEPT !.second = Follows(last, m)]

Call(values, timestamp, replace, to_delete) ==
  [values |-> values, timestamp |-> timestamp, replace |-> replace,
   to_delete |-> to_delete]

\* A statement on a closed connection raises AttributeError (its cursor is None).
OnConnection(cn, b) ==
  IF cn.open \/ ~b.touched THEN b
  ELSE Done(cn.view, "AttributeError", <<>>, FALSE, TRUE)

\* The body of a with block on connection c, from __enter__ to the statement
\* before __exit__.
Run(w, c, Body(_)) ==
  LET Ran(b) == [w |-> [w EXCEPT !.conn[c].view  = b.view,
                                 !.conn[c].dirty = @ \/ b.wrote],
                 raised |-> b.raised, ret |-> b.ret]
  IN Ran(OnConnection(w.conn[c], Body(w.conn[c].view)))

\* "with self.cache.Get(subject) as sqlite_connection: Body".
With(w, subject, Body(_)) ==
  LET Leave(r, c) == [r EXCEPT !.w = Collect(Exit(r.w, c), Held)]
      Enter(g)    == Leave(Run(g.w, g.c, Body), g.c)
  IN Enter(Get(w, subject, Held))

Idle == \A t \in Threads : pc[t] = "idle"

MultiSet(subject, values, timestamp, replace, to_delete, granted) ==
  /\ Idle
  /\ IF ~granted
       THEN /\ last' = Return("MultiSet", subject,
                              Call(values, timestamp, replace, to_delete), granted, "AccessDenied", <<>>)
            /\ UNCHANGED <<age, hash, conn, disk>>
       ELSE \E r \in {With(World, subject, LAMBDA v :
                       MultiSetBody(v, values, timestamp, replace, to_delete))} :
               /\ TotalCells(r.w.disk) <= MaxCells
               /\ Install(r.w)
               /\ last' = Return("MultiSet", subject,
                              Call(values, timestamp, replace, to_delete), granted, r.raised, r.ret)
  /\ UNCHANGED <<now, cachelock, tx, pc, local>>

DeleteAttributes(subject, attributes, start, end, granted) ==
  /\ Idle
  /\ IF ~granted
       THEN /\ last' = Return("DeleteAttributes", subject, <<>>, granted,
                              "AccessDenied", <<>>)
            /\ UNCHANGED <<age, hash, conn, disk>>
       ELSE \E r \in {With(World, subject, LAMBDA v :
                       DeleteAttributesBody(v, attributes, start, end))} :
               /\ Install(r.w)
               /\ last' = Return("DeleteAttributes", subject, <<>>, granted,
                                 r.raised, r.ret)
  /\ UNCHANGED <<now, cachelock, tx, pc, local>>

\* DeleteAttributesRegex does not call the gate.
DeleteAttributesRegex(subject, regexes, granted) ==
  /\ Idle
  /\ \E r \in {With(World, subject, LAMBDA v :
                DeleteAttributesRegexBody(v, regexes))} :
        /\ Install(r.w)
        /\ last' = Return("DeleteAttributesRegex", subject, <<>>, granted,
                          r.raised, r.ret)
  /\ UNCHANGED <<now, cachelock, tx, pc, local>>

DeleteSubject(subject, granted) ==
  /\ Idle
  /\ IF ~granted
       THEN /\ last' = Return("DeleteSubject", subject, <<>>, granted,
                              "AccessDenied", <<>>)
            /\ UNCHANGED <<age, hash, conn, disk>>
       ELSE \E r \in {With(World, subject, LAMBDA v : DeleteSubjectBody(v))} :
               /\ Install(r.w)
               /\ last' = Return("DeleteSubject", subject, <<>>, granted,
                                 r.raised, r.ret)
  /\ UNCHANGED <<now, cachelock, tx, pc, local>>

\* One call of ResolveRegex: the world after it, what it raised or returned.
ResolveRegexCall(w, subject, predicate_regex, timestamp, limit, granted) ==
  IF ~granted THEN [w |-> w, raised |-> "AccessDenied", ret |-> <<>>]
  ELSE With(w, subject, LAMBDA v :
              ResolveRegexBody(v, predicate_regex, timestamp, limit))

ResolveRegex(subject, predicate_regex, timestamp, limit, granted) ==
  /\ Idle
  /\ \E r \in {ResolveRegexCall(World, subject, predicate_regex, timestamp,
                                 limit, granted)} :
        /\ Install(r.w)
        /\ last' = Return("ResolveRegex", subject, <<>>, granted, r.raised, r.ret)
  /\ UNCHANGED <<now, cachelock, tx, pc, local>>

\* One call of ResolveMulti.
ResolveMultiCall(w, subject, predicates, timestamp, limit, granted) ==
  IF ~granted THEN [w |-> w, raised |-> "AccessDenied", ret |-> <<>>]
  ELSE With(w, subject, LAMBDA v :
              ResolveMultiBody(v, predicates, timestamp, limit))

ResolveMulti(subject, predicates, timestamp, limit, granted) ==
  /\ Idle
  /\ \E r \in {ResolveMultiCall(World, subject, predicates, timestamp,
                                 limit, granted)} :
        /\ Install(r.w)
        /\ last' = Return("ResolveMulti", subject, <<>>, granted, r.raised, r.ret)
  /\ UNCHANGED <<now, cachelock, tx, pc, local>>

NoResults == [s \in Subjects |-> <<>>]

RECURSIVE MultiResolveRegexLoop(_, _, _, _, _, _, _, _)
\* The loop of MultiResolveRegex over the subjects; result[s] = <<>> stands for
\* a subject that is no key of the result.  The gate rejects the subjects of
\* denied.
MultiResolveRegexLoop(w, subjects, predicate_regex, timestamp, limit, denied, result, nr_results) ==
  IF subjects = <<>> THEN [w |-> w, raised |-> "", ret |-> result]
  ELSE
    LET subject == subjects[1]
        Next1(r, result1, limit1, nr1) ==
          IF limit1 > 0 /\ nr1 < 0
            THEN [w |-> r.w, raised |-> "", ret |-> result1]
            ELSE MultiResolveRegexLoop(r.w, SubSeq(subjects, 2, Len(subjects)),
                   predicate_regex, timestamp, limit1, denied, result1, nr1)
        Resolved(r) ==
          IF r.raised # ""
            THEN [w |-> r.w, raised |-> r.raised, ret |-> NoResults]
            ELSE Next1(r,
                   [result EXCEPT ![subject] = IF r.ret # <<>> THEN r.ret ELSE @],
                   IF r.ret # <<>> /\ limit > 0 THEN limit - Len(r.ret) ELSE limit,
                   nr_results + Len(r.ret))
    IN Resolved(ResolveRegexCall(w, subject, predicate_regex, timestamp, limit,
                                 subject \notin denied))

MultiResolveRegexCall(w, subjects, predicate_regex, timestamp, limit, denied) ==
  MultiResolveRegexLoop(w, subjects, predicate_regex, timestamp, limit, denied,
                        NoResults, 0)

MultiResolveRegex(subjects, predicate_regex, timestamp, limit, denied) ==
  /\ Idle
  /\ subjects # <<>>
  /\ \E r \in {MultiResolveRegexCall(World, subjects, predicate_regex,
                                      timestamp, limit, denied)} :
        /\ Install(r.w)
        /\ last' = Return("MultiResolveRegex", subjects[1], <<>>,
                          \A i \in 1..Len(subjects) : subjects[i] \notin denied,
                          r.raised, r.ret)
  /\ UNCHANGED <<now, cachelock, tx, pc, local>>

(***************************************************************************)
(* The initial state: a store just constructed over an empty root          *)
(* directory, every file as the template, no transaction, idle threads.    *)
(***************************************************************************)
NoTx == [state |-> "unused", subject |-> 0, token |-> 0, expires |-> 0,
         locked |-> FALSE]

NoLocal == [op |-> "", subject |-> 0, c |-> 0, kill |-> <<>>, raised |-> ""]

Init ==
  /\ now = 1
  /\ disk = [s \in Subjects |-> EmptyFile]
  /\ conn = [c \in ConnIds |-> NoConn]
  /\ age = <<>>
  /\ hash = [s \in Subjects |-> 0]
  /\ cachelock = 0
  /\ tx = [i \in TxIds |-> NoTx]
  /\ pc = [t \in Threads |-> "idle"]
  /\ local = [t \in Threads |-> NoLocal]
  /\ last = NoCall

(***************************************************************************)
(* SpecStore: the calls of the facade, one after the other.                *)
(***************************************************************************)
Plain(v)   == Item(v, None, FALSE)
BadItem    == Item(StrX, <<0>>, TRUE)
\* The calls of MultiSet: one value (the call of the testable properties), a
\* value with its own timestamp, a value then an element whose timestamp does
\* not convert, the same value twice, two predicates, no timestamp, and a
\* to_delete list.
One(p, v) == <<<<p, <<Plain(v)>>>>>>
\* MultiSet(S, {"task:1": [("x", MaxTs), "x"]}, timestamp=1, replace=True): two
\* values of one predicate, the first with its own timestamp.
TwoTimestamps ==
  Call(<<<<"task:1", <<Item(StrX, <<MaxTs>>, FALSE), Plain(StrX)>>>>>>, <<1>>,
       TRUE, <<>>)
MultiSetCalls ==
  {Call(One(p, v), <<t>>, replace, <<>>) :
     p \in Predicates, v \in Values, t \in Timestamps, replace \in BOOLEAN}
    \cup {Call(<<<<"task:1", <<Item(StrX, <<t>>, FALSE)>>>>>>, <<1>>, FALSE, <<>>) :
            t \in Timestamps}
    \cup {Call(<<<<p, <<Plain(IntFive), BadItem>>>>>>, <<1>>, replace, <<>>) :
            p \in Predicates, replace \in BOOLEAN}
    \cup {Call(<<<<p, <<Plain(StrX), Plain(StrX)>>>>>>, <<1>>, replace, <<>>) :
            p \in Predicates, replace \in BOOLEAN}
    \cup {Call(<<<<"aff4:size", <<Plain(IntFive)>>>>,
                 <<"task:1", <<Plain(IntFive)>>>>>>, <<1>>, TRUE, <<>>)}
    \cup {Call(One("task:1", StrX), None, replace, <<>>) : replace \in BOOLEAN}
    \cup {Call(values, <<1>>, FALSE, <<p>>) :
            values \in {<<>>, One("task:1", StrX)}, p \in Predicates}
    \cup {TwoTimestamps}
Ranges == {<<None, None>>, <<None, <<1>>>>, <<<<MaxTs>>, None>>, <<<<1>>, <<1>>>>}

\* The calls of NextStore.  The resolve calls made are few: what a resolve call
\* returns in a state is a function of the state, and the properties below
\* evaluate it there for the arguments they are about.
NextStore ==
  \/ \E s \in CallSubjects, call \in MultiSetCalls :
       MultiSet(s, call.values, call.timestamp, call.replace, call.to_delete,
                TRUE)
  \/ MultiSet(1, <<>>, None, TRUE, <<>>, FALSE)
  \/ \E s \in CallSubjects, range \in Ranges,
        attributes \in {<<"task:1">>, <<"aff4:size", "task:1">>} :
       DeleteAttributes(s, attributes, range[1], range[2], TRUE)
  \/ DeleteAttributes(1, <<"task:1">>, None, None, FALSE)
  \/ \E s \in CallSubjects, granted \in BOOLEAN,
        regexes \in {<<"task:">>, <<"aff4:", ":">>} :
       DeleteAttributesRegex(s, regexes, granted)
  \/ \E s \in CallSubjects : DeleteSubject(s, TRUE)
  \/ DeleteSubject(1, FALSE)
  \/ \E s \in CallSubjects : ResolveRegex(s, <<":">>, NEWEST_TIMESTAMP, 0, TRUE)
  \/ ResolveRegex(1, <<":">>, NEWEST_TIMESTAMP, 0, FALSE)
  \/ \E s \in CallSubjects, p \in Predicates,
        mode \in {NEWEST_TIMESTAMP, ALL_TIMESTAMPS} :
       ResolveMulti(s, <<p>>, mode, 0, TRUE)
  \/ ResolveMulti(1, <<"task:1">>, NEWEST_TIMESTAMP, 0, FALSE)
  \/ \E limit \in 0..1, denied \in {{}, {NumSubjects - 1}} :
       MultiResolveRegex(<<1, NumSubjects - 1>>, <<":">>, ALL_TIMESTAMPS, limit,
                         denied)

SpecStore == Init /\ [][NextStore]_vars

(***************************************************************************)
(* SqliteTransaction.  tx[i].state is "unused" until the constructor has    *)
(* returned the object ("held"), then "committed" or "aborted"; a           *)
(* constructor that raises leaves no object.  The token of a transaction is *)
(* thread.get_ident() of the thread that constructs it.                     *)
(***************************************************************************)
\* A faulty test of the lock row: a lock never expires.
LockedForever(lock, clock) == lock # NoLock

\* "locked_until and time.time() < float(locked_until)" on the row GetLock gave.
Locked(lock, clock) == lock # NoLock /\ lock[1] # 0 /\ clock < lock[1]

\* The with block of the constructor.
TransactionBody(view, lease_time, token) ==
  IF Locked(GetLock(view), now)
    THEN Done(view, "TransactionError", <<>>, FALSE, TRUE)
    ELSE Done(SetLock(view, now + lease_time, token), "", <<>>, TRUE, TRUE)

\* The transaction objects are taken in order, by the threads in turn.
NewTx(i) == tx[i].state = "unused" /\ \A j \in 1..(i - 1) : tx[j].state # "unused"
Creator(i) == ((i - 1) % NumThreads) + 1

\* store.Transaction(subject, lease_time) by thread t, when no other thread
\* runs: the lock row read back after the with block is the one just written.
Transaction(i, t, subject, lease_time) ==
  /\ Idle /\ NewTx(i)
  /\ \E r \in {With(World, subject, LAMBDA v :
                TransactionBody(v, lease_time, t))} :
       LET stored == GetLock(r.w.conn[r.w.hash[subject]].view)
           raised == IF r.raised # "" THEN r.raised
                     ELSE IF stored = NoLock \/ stored[2] # t
                       THEN "TransactionError" ELSE ""
       IN /\ Install(r.w)
          /\ tx' = IF raised # "" THEN tx
                   ELSE [tx EXCEPT ![i] = [state |-> "held", subject |-> subject,
                                           token |-> t,
                                           expires |-> now + lease_time,
                                           locked |-> TRUE]]
          /\ last' = Return("Transaction", subject,
                            [tx |-> i, token |-> t, lease_time |-> lease_time],
                            TRUE, raised, <<>>)
  /\ UNCHANGED <<now, cachelock, pc, local>>

\* SqliteTransaction.UpdateLease: it does not look at self.locked.
UpdateLeaseCall(i, duration) ==
  /\ Idle
  /\ \E r \in {With(World, tx[i].subject, LAMBDA v :
                Done(SetLock(v, now + duration, tx[i].token), "", <<>>,
                     TRUE, TRUE))} :
       /\ Install(r.w)
       /\ tx' = [tx EXCEPT ![i].expires = now + duration]
       /\ last' = Return("UpdateLease", tx[i].subject, [tx |-> i], TRUE,
                         r.raised, <<>>)
  /\ UNCHANGED <<now, cachelock, pc, local>>

\* UpdateLease on a transaction that is Held.
UpdateLease(i, duration) == tx[i].state = "held" /\ UpdateLeaseCall(i, duration)

\* SqliteTransaction._RemoveLock: the row of the subject, whoever wrote it.
RemoveLockCall(w, subject) ==
  With(w, subject, LAMBDA v : Done(RemoveLock(v), "", <<>>, TRUE, TRUE))

\* Abort and Commit: "if self.locked: self._RemoveLock()", without the
\* mutations that CommonTransaction.Commit sends to the store (CommitCall below
\* has them).
FinishCall(i, op, state) ==
  /\ Idle
  /\ IF tx[i].locked
       THEN \E r \in {RemoveLockCall(World, tx[i].subject)} :
              /\ Install(r.w)
              /\ tx' = [tx EXCEPT ![i].locked = FALSE, ![i].state = state]
              /\ last' = Return(op, tx[i].subject, [tx |-> i], TRUE, r.raised,
                                <<>>)
       ELSE /\ UNCHANGED <<age, hash, conn, disk, tx>>
            /\ last' = Return(op, tx[i].subject, [tx |-> i], TRUE, "", <<>>)
  /\ UNCHANGED <<now, cachelock, pc, local>>

\* In SpecLease a transaction is finished once, and not used after that.
Finish(i, op, state) == tx[i].state = "held" /\ FinishCall(i, op, state)

Abort(i)  == Finish(i, "Abort", "aborted")
Commit(i) == Finish(i, "Commit", "committed")

\* time.time() advances.
Tick ==
  /\ now < MaxNow
  /\ now' = now + 1
  /\ UNCHANGED <<disk, conn, age, hash, cachelock, tx, pc, local, last>>

(***************************************************************************)
(* SpecLease: transactions made, extended and finished one call after the  *)
(* other, while the clock runs.                                            *)
(***************************************************************************)
NextLease ==
  \/ \E i \in TxIds, s \in CallSubjects, lease_time \in Leases :
       Transaction(i, Creator(i), s, lease_time)
  \/ \E i \in TxIds, duration \in Leases : UpdateLease(i, duration)
  \/ \E i \in TxIds : Abort(i)
  \/ \E i \in TxIds : Commit(i)
  \/ Tick

SpecLease == Init /\ [][NextLease]_vars

(***************************************************************************)
(* SpecFinal: the methods of the transaction objects called in any state   *)
(* of the object, Commit in its two steps: the commit of the buffered      *)
(* mutations (CommonTransaction.Commit), then _RemoveLock.  tx[i].state is *)
(* "committing" between the two; calls on other objects may come between.  *)
(***************************************************************************)
Terminal == {"committed", "aborted"}

\* CommonTransaction.Commit: the buffered mutations go to the store through
\* the facade, here MultiSet(subject, {"task:1": ["x"]}, 1); the gate may reject
\* the call.
SuperCommit(w, subject, granted) ==
  IF ~granted THEN [w |-> w, raised |-> "AccessDenied", ret |-> <<>>]
  ELSE With(w, subject, LAMBDA v :
              MultiSetBody(v, One("task:1", StrX), <<1>>, TRUE, <<>>))

\* A faulty Commit: the lock is removed before the mutations are committed.
CommitStepsLockFirst(locked) ==
  IF locked THEN <<"_RemoveLock", "super.Commit">> ELSE <<>>

\* SqliteTransaction.Commit: the calls it makes, in order.
CommitSteps(locked) ==
  IF locked THEN <<"super.Commit", "_RemoveLock">> ELSE <<>>

\* One call of Commit's body; the call returns after the second of them, or
\* when one raises.
CommitDo(i, step, granted, returns) ==
  LET after == IF returns THEN "committed" ELSE "committing"
      Ret(raised) == IF returns \/ raised # ""
                       THEN Return("Commit", tx[i].subject, [tx |-> i], TRUE,
                                   raised, <<>>)
                       ELSE last
  IN IF step = "super.Commit"
       THEN \E r \in {SuperCommit(World, tx[i].subject, granted)} :
              /\ Install(r.w)
              /\ tx' = [tx EXCEPT ![i].state =
                          IF r.raised = "" THEN after
                          ELSE IF tx[i].locked THEN "held" ELSE "committed"]
              /\ last' = Ret(r.raised)
       ELSE \E r \in {RemoveLockCall(World, tx[i].subject)} :
              /\ Install(r.w)
              /\ tx' = [tx EXCEPT ![i].locked = FALSE, ![i].state = after]
              /\ last' = Ret(r.raised)

\* Commit is called: "if self.locked", then the first call of its body.
CommitCall(i, granted) ==
  /\ Idle /\ tx[i].state \in {"held"} \cup Terminal
  /\ IF CommitSteps(tx[i].locked) = <<>>
       THEN /\ UNCHANGED <<age, hash, conn, disk, tx>>
            /\ last' = Return("Commit", tx[i].subject, [tx |-> i], TRUE, "", <<>>)
       ELSE CommitDo(i, CommitSteps(tx[i].locked)[1], granted, FALSE)
  /\ UNCHANGED <<now, cachelock, pc, local>>

\* Commit goes on to the second call of its body.
CommitResume(i) ==
  /\ Idle /\ tx[i].state = "committing"
  /\ CommitDo(i, CommitSteps(TRUE)[2], TRUE, TRUE)
  /\ UNCHANGED <<now, cachelock, pc, local>>

AbortCall(i) ==
  /\ tx[i].state \in {"held"} \cup Terminal
  /\ FinishCall(i, "Abort", "aborted")

\* SqliteTransaction.CheckLease.
CheckLeaseCall(i) ==
  /\ Idle /\ tx[i].state \in {"held"} \cup Terminal
  /\ last' = Return("CheckLease", tx[i].subject, [tx |-> i], TRUE, "",
                    <<IF tx[i].expires > now THEN tx[i].expires - now ELSE 0>>)
  /\ UNCHANGED <<now, disk, conn, age, hash, cachelock, tx, pc, local>>

NextFinal ==
  \/ \E i \in TxIds, lease_time \in Leases :
       Transaction(i, Creator(i), 1, lease_time)
  \/ \E i \in TxIds :
       tx[i].state \in {"held"} \cup Terminal /\ UpdateLeaseCall(i, MaxLease)
  \/ \E i \in TxIds : AbortCall(i)
  \/ \E i \in TxIds, granted \in BOOLEAN : CommitCall(i, granted)
  \/ \E i \in TxIds : CommitResume(i)
  \/ \E i \in TxIds : CheckLeaseCall(i)
  \/ Tick

SpecFinal == Init /\ [][NextFinal]_vars

(***************************************************************************)
(* SpecConc: threads that call the store at the same time.  A call is the  *)
(* steps of "with self.cache.Get(subject) as c: body": Get under the cache *)
(* lock, the evictions one by one (Close waits for the lock of the         *)
(* connection, the cache lock being held), __enter__, the body, __exit__.  *)
(* pc[t] names the step thread t takes next.                               *)
(***************************************************************************)
ThreadOps == {"MultiSet", "ResolveMulti"}

\* The calls of the threads: MultiSet(S, {"task:1": ["x"]}, 1),
\* ResolveMulti(S, ["task:1"]) and, as "MultiSet raising",
\* MultiSet(S, {"task:1": ["x", ("x", "abc")]}, 1), which raises ValueError
\* after its first insert.
ThreadArg(op) ==
  IF op = "MultiSet"
    THEN Call(<<<<"task:1", <<Item(StrX, None, FALSE)>>>>>>, <<1>>, TRUE, <<>>)
  ELSE IF op = "MultiSet raising"
    THEN Call(<<<<"task:1", <<Plain(StrX), BadItem>>>>>>, <<1>>, TRUE, <<>>)
    ELSE <<>>

ThreadBody(op, view) ==
  IF op \in {"MultiSet", "MultiSet raising"}
    THEN MultiSetBody(view, ThreadArg(op).values, ThreadArg(op).timestamp,
                      ThreadArg(op).replace, ThreadArg(op).to_delete)
    ELSE ResolveMultiBody(view, <<"task:1">>, NEWEST_TIMESTAMP, 0)

\* The connections held by the threads other than t.
HeldByOthers(t) == {local[u].c : u \in Threads \ {t}} \ {0}

\* Thread t calls op on the subject: cache.Get takes the cache lock, finds or
\* opens the connection, and keeps the lock if there is something to evict.
GetUnderLock(t, op, subject) ==
  /\ cachelock = 0
  /\ \E g \in {CacheGet(World, subject, Held)} :
       /\ Install(g.w)
       /\ local' = [local EXCEPT ![t] = [NoLocal EXCEPT !.op = op,
                      !.subject = subject, !.c = g.c, !.kill = g.kill]]
       /\ cachelock' = IF g.kill = <<>> THEN 0 ELSE t
       /\ pc' = [pc EXCEPT ![t] = IF g.kill = <<>> THEN "enter" ELSE "kill"]
  /\ UNCHANGED <<now, tx, last>>

\* In SpecConc the call and the taking of the cache lock are one step.
ThreadGet(t, op, subject) == pc[t] = "idle" /\ GetUnderLock(t, op, subject)

\* The eviction of the next key: Close takes the lock of the connection, so
\* the step waits while a thread is inside its with block.
ThreadExpire(t) ==
  /\ pc[t] = "kill"
  /\ conn[hash[Head(local[t].kill)]].owner = 0
  /\ Install(Collect(ExpireKey(World, Head(local[t].kill)), Held))
  /\ local' = [local EXCEPT ![t].kill = Tail(@)]
  /\ cachelock' = IF Tail(local[t].kill) = <<>> THEN 0 ELSE t
  /\ pc' = [pc EXCEPT ![t] = IF Tail(local[t].kill) = <<>> THEN "enter" ELSE "kill"]
  /\ UNCHANGED <<now, tx, last>>

\* SqliteConnection.__enter__.
ThreadEnter(t) ==
  /\ pc[t] = "enter"
  /\ conn[local[t].c].owner = 0
  /\ conn' = [conn EXCEPT ![local[t].c].owner = t]
  /\ pc' = [pc EXCEPT ![t] = "body"]
  /\ UNCHANGED <<now, disk, age, hash, cachelock, tx, local, last>>

\* The statements of the with block.
ThreadRun(t) ==
  /\ pc[t] = "body"
  /\ \E r \in {Run(World, local[t].c, LAMBDA v : ThreadBody(local[t].op, v))} :
       /\ Install(r.w)
       /\ local' = [local EXCEPT ![t].raised = r.raised]
  /\ pc' = [pc EXCEPT ![t] = "exit"]
  /\ UNCHANGED <<now, cachelock, tx, last>>

\* A faulty __exit__: the lock of the connection is not released.
ReleaseNever(w, c) == w

\* self.lock.release() at the end of __exit__.
Release(w, c) == [w EXCEPT !.conn[c].owner = 0]

\* SqliteConnection.__exit__, and the return of the call.
ThreadExit(t) ==
  /\ pc[t] = "exit"
  /\ \E w \in {Exit(World, local[t].c)} :
       Install(Collect(Release(w, local[t].c), HeldByOthers(t)))
  /\ local' = [local EXCEPT ![t] = NoLocal]
  /\ pc' = [pc EXCEPT ![t] = "idle"]
  /\ last' = Return(local[t].op, local[t].subject, ThreadArg(local[t].op), TRUE,
                    local[t].raised, <<>>)
  /\ UNCHANGED <<now, cachelock, tx>>

NextConc ==
  \/ \E t \in Threads, op \in ThreadOps, s \in Subjects : ThreadGet(t, op, s)
  \/ ThreadGet(1, "MultiSet raising", 1)
  \/ \E t \in Threads : ThreadExpire(t)
  \/ \E t \in Threads : ThreadEnter(t)
  \/ \E t \in Threads : ThreadRun(t)
  \/ \E t \in Threads : ThreadExit(t)

SpecConc == Init /\ [][NextConc]_vars

(***************************************************************************)
(* SpecLive: the threads of SpecConc, where a call first asks for the      *)
(* cache lock (pc "get") and takes it in a later step.  A thread that can  *)
(* run does run: every step of a thread is weakly fair, so a lock holder   *)
(* keeps running and a lock that stays free is taken.  threading.RLock     *)
(* grants a free lock to any of the threads that ask for it, in no order:  *)
(* nothing stronger than weak fairness holds of the steps that take a      *)
(* lock.  Threads need not go on calling.  The calls are ResolveMulti on   *)
(* every subject: each operation of the facade and of a transaction takes  *)
(* its locks in the same way, cache.Get and then the with block.           *)
(***************************************************************************)
\* Thread t calls op on the subject and asks for the cache lock.
ThreadCall(t, op, subject) ==
  /\ pc[t] = "idle"
  /\ local' = [local EXCEPT ![t] = [NoLocal EXCEPT !.op = op,
                                                  !.subject = subject]]
  /\ pc' = [pc EXCEPT ![t] = "get"]
  /\ UNCHANGED <<now, disk, conn, age, hash, cachelock, tx, last>>

\* Thread t is granted the cache lock: the body of cache.Get.
ThreadAcquire(t) ==
  pc[t] = "get" /\ GetUnderLock(t, local[t].op, local[t].subject)

NextLive ==
  \/ \E t \in Threads, s \in Subjects : ThreadCall(t, "ResolveMulti", s)
  \/ \E t \in Threads : ThreadAcquire(t)
  \/ \E t \in Threads : ThreadExpire(t)
  \/ \E t \in Threads : ThreadEnter(t)
  \/ \E t \in Threads : ThreadRun(t)
  \/ \E t \in Threads : ThreadExit(t)

Fairness ==
  \A t \in Threads :
    /\ WF_vars(ThreadRun(t)) /\ WF_vars(ThreadExit(t))
    /\ WF_vars(ThreadAcquire(t)) /\ WF_vars(ThreadExpire(t))
    /\ WF_vars(ThreadEnter(t))

SpecLive == Init /\ [][NextLive]_vars /\ Fairness

(***************************************************************************)
(* Properties of the transactions, under SpecLease.                        *)
(***************************************************************************)
\* The transaction holds its lease: it is Held and its lease has not expired.
HoldsLease(i) == tx[i].locked /\ now < tx[i].expires

\* C1 as stated: at no time are two transactions on the same subject both Held
\* with unexpired leases.
C1_MutualExclusion ==
  \A i, j \in TxIds :
    (i # j /\ HoldsLease(i) /\ HoldsLease(j)) => tx[i].subject # tx[j].subject

\* C2: a constructor that finds the lock row of its subject with expires <= now
\* returns the transaction Held, and leaves the lock row
\* (now + lease_time, token of the transaction).
C2_StaleLeaseRecovery ==
  [][(/\ last'.op = "Transaction" /\ now' = now
      /\ disk[last'.subject].lock # NoLock
      /\ disk[last'.subject].lock[1] <= now) =>
       LET a == last'.arg
       IN /\ last'.raised = ""
          /\ tx'[a.tx] = [state |-> "held", subject |-> last'.subject,
                          token |-> a.token, expires |-> now + a.lease_time,
                          locked |-> TRUE]
          /\ disk'[last'.subject].lock = <<now + a.lease_time, a.token>>]_vars

\* A transaction holds a lease that it took over from a transaction whose
\* lease had expired and which is still Held.
C2_Witness ==
  /\ last.op = "Transaction" /\ last.raised = ""
  /\ HoldsLease(last.arg.tx)
  /\ \E j \in TxIds \ {last.arg.tx} :
       /\ tx[j].locked /\ tx[j].subject = last.subject
       /\ tx[j].expires <= now

(***************************************************************************)
(* Properties of the cache and the connections, under SpecConc.            *)
(***************************************************************************)
OpenConns == {c \in ConnIds : conn[c].open}
Cached    == {s \in Subjects : hash[s] # 0}

\* C7: whenever no Get is inside the cache lock, the cache holds at most
\* max_size connections.
C7_Capacity ==
  cachelock = 0 => (Len(age) <= max_size /\ Cardinality(Cached) <= max_size)

\* The cache is full, and a thread holds a connection that has been evicted.
C7_Witness ==
  /\ cachelock = 0 /\ Len(age) = max_size
  /\ \E t \in Threads :
       /\ local[t].c # 0 /\ ~conn[local[t].c].open
       /\ hash[local[t].subject] = 0

\* Thread t takes the Get step, for subject s.
GetStep(t, s) == pc[t] = "idle" /\ pc'[t] # "idle" /\ local'[t].subject = s

\* Thread t takes the step that evicts a key.
ExpireStep(t) == pc[t] = "kill" /\ local'[t].kill # local[t].kill

\* Nothing refers to the connection identity c: it is no connection object.
Fresh(c) ==
  /\ ~conn[c].open /\ c \notin Held /\ \A s \in Subjects : hash[s] # c

\* C8: Get on a cached subject returns the cached connection and makes it the
\* most recently used; Get on a subject that is not cached returns a newly
\* opened connection and, when the cache is full, evicts exactly the least
\* recently used entry, which is closed and is not the connection returned;
\* after the eviction exactly max_size connections are open.
C8_StrictLRU ==
  [][\A t \in Threads :
       /\ \A s \in Subjects : (GetStep(t, s) /\ hash[s] # 0) =>
            /\ local'[t].c = hash[s] /\ conn'[hash[s]].open
            /\ age' = Append(Remove(age, s), s)
            /\ hash' = hash /\ conn' = conn /\ local'[t].kill = <<>>
       /\ \A s \in Subjects : (GetStep(t, s) /\ hash[s] = 0) =>
            /\ Fresh(local'[t].c)
            /\ conn'[local'[t].c].open /\ conn'[local'[t].c].subject = s
            /\ hash' = [hash EXCEPT ![s] = local'[t].c]
            /\ age' = Append(age, s)
            /\ local'[t].kill =
                 IF Len(age) = max_size THEN <<age[1]>> ELSE <<>>
       /\ ExpireStep(t) =>
            LET key == local[t].kill[1] IN
            /\ key = age[1] /\ key # local[t].subject
            /\ hash[key] # local[t].c
            /\ conn[hash[key]].open /\ ~conn'[hash[key]].open
            /\ hash' = [hash EXCEPT ![key] = 0] /\ age' = Tail(age)
            /\ conn'[local[t].c].open /\ hash'[local[t].subject] = local[t].c
            /\ cachelock' = 0
            /\ Cardinality(OpenConns') = max_size]_vars

\* A thread still holds the closed connection of a subject that was evicted,
\* and a later Get of the subject has put a newly opened connection.
C8_Witness ==
  \E t \in Threads :
    /\ local[t].c # 0 /\ ~conn[local[t].c].open
    /\ hash[local[t].subject] # 0
    /\ hash[local[t].subject] # local[t].c
    /\ conn[hash[local[t].subject]].open

\* C9: when a connection is closed, the file holds every mutation executed on
\* the connection: the committed content is the view the connection had.
C9_FlushBeforeClose ==
  [][\A c \in ConnIds :
       (conn[c].open /\ ~conn'[c].open) =>
          /\ disk'[conn[c].subject] = conn[c].view
          /\ conn[c].owner = 0]_vars

\* The connection of a subject has been written, then evicted: the subject is
\* not cached, no connection of it is open, and its cell is in the file.
C9_Witness ==
  \E s \in Subjects :
    /\ hash[s] = 0 /\ disk[s].tbl # <<>>
    /\ \A c \in ConnIds : conn[c].open => conn[c].subject # s
    /\ \E t \in Threads : pc[t] = "enter" /\ cachelock = 0

\* C10: no two open connections are connections of the same subject.
C10_OneLiveConnection ==
  \A c, d \in ConnIds :
    (c # d /\ conn[c].open /\ conn[d].open) => conn[c].subject # conn[d].subject

\* A Get is about to evict: max_size + 1 connections are open.
C10_Witness ==
  /\ cachelock # 0
  /\ Cardinality(OpenConns) = max_size + 1

(***************************************************************************)
(* Properties of the facade, under SpecStore.                              *)
(***************************************************************************)
Newest(w, S, P) == ResolveMultiCall(w, S, <<P>>, NEWEST_TIMESTAMP, 0, TRUE)
All(w, S, P)    == ResolveMultiCall(w, S, <<P>>, ALL_TIMESTAMPS, 0, TRUE)

Returns(r, ret) == r.raised = "" /\ r.ret = ret

\* C3 as stated: after MultiSet(S, {P: [v]}, t, replace=True), for any value v,
\* ResolveMulti(S, [P], NEWEST) returns exactly [(P, v, t)].
C3_AnyValue ==
  OneValueReplace(last) =>
    LET c == Written(last)
    IN Returns(Newest(World, last.subject, c.P), <<<<c.P, c.v, c.t>>>>)

\* C3: after MultiSet(S, {P: [v]}, t, replace=True) of a value v that _Decode
\* gives back under the type of P, whatever cells S held before,
\* ResolveMulti(S, [P], NEWEST) returns exactly [(P, v, t)].
C3_NewestIsTheWrite ==
  (OneValueReplace(last) /\ RoundTrips(Written(last).P, Written(last).v)) =>
    LET c == Written(last)
    IN Returns(Newest(World, last.subject, c.P), <<<<c.P, c.v, c.t>>>>)

\* The integer 5 was written at timestamp 1 to aff4:size of a subject that
\* holds a cell of another predicate as well.
C3_Witness ==
  /\ OneValueReplace(last)
  /\ Written(last) = [P |-> "aff4:size", v |-> IntFive, t |-> 1]
  /\ Len(disk[last.subject].tbl) = 2

\* Two MultiSet calls with replace=True, one right after the other, wrote v1 at
\* t1 and v2 at t2 # t1 to the same (S, P); both values round-trip.
TwoWrites == Follows(last, last')

C5_AllOrNothing ==
  [][(last'.op = "MultiSet" /\ last'.raised # "") => disk' = disk]_vars

\* C6 as stated, for the six calls on one subject: a call whose token the gate
\* rejects fails with AccessDenied, and neither the cache nor any file changes.
C6_GateRejects ==
  [][(~last'.granted /\ last'.op # "MultiResolveRegex") =>
       /\ last'.raised = "AccessDenied"
       /\ UNCHANGED <<age, hash, conn, disk>>]_vars

\* No two rows of the table have the same predicate and timestamp.
NoDuplicateKeys(tbl) ==
  \A i, j \in 1..Len(tbl) :
    (i # j /\ tbl[i].predicate = tbl[j].predicate)
      => tbl[i].timestamp # tbl[j].timestamp

\* C11 as stated: after any MultiSet call, no two stored cells share the same
\* (subject, predicate, timestamp).
C11_UniqueKeys ==
  [][(last'.op = "MultiSet" /\ last'.granted) =>
       \A s \in Subjects : NoDuplicateKeys(disk'[s].tbl)]_vars

\* The timestamp MultiSet stores an element of a call with.
ElementTimestamp(call, v) ==
  IF v.ts # None THEN v.ts[1]
  ELSE IF call.timestamp = None THEN DefaultTimestamp ELSE call.timestamp[1]

\* The elements the call writes to any one predicate have distinct timestamps.
DistinctTimestamps(call) ==
  \A k \in 1..Len(call.values) :
    \A i, j \in 1..Len(call.values[k][2]) :
      i # j => ElementTimestamp(call, call.values[k][2][i])
                 # ElementTimestamp(call, call.values[k][2][j])

WrittenPredicates(call) == {call.values[k][1] : k \in 1..Len(call.values)}

\* C11: after a MultiSet call with replace=True that returns, and whose
\* elements for each predicate carry distinct timestamps, no two stored cells of
\* a written predicate of the subject share (subject, predicate, timestamp).
C11_UniqueAfterReplace ==
  [][(/\ last'.op = "MultiSet" /\ last'.granted /\ last'.raised = ""
      /\ last'.arg.replace /\ DistinctTimestamps(last'.arg)) =>
       NoDuplicateKeys(SelectSeq(disk'[last'.subject].tbl,
         LAMBDA r : r.predicate \in WrittenPredicates(last'.arg)))]_vars

\* The call that writes two values of task:1 at two timestamps has returned,
\* and the two cells are what the file holds.
C11_Witness ==
  /\ last.op = "MultiSet" /\ last.raised = "" /\ last.arg = TwoTimestamps
  /\ Len(disk[last.subject].tbl) = 2
  /\ disk[last.subject].tbl[1].timestamp = MaxTs
  /\ disk[last.subject].tbl[2].timestamp = 1

\* DeleteAttributes(S, attributes, start, end) with a token the gate accepts.
DeleteAttributesCall(w, S, attributes, range) ==
  With(w, S, LAMBDA v : DeleteAttributesBody(v, attributes, range[1], range[2]))

\* The store once a transaction has taken the lease of S: a lock row exists.
WithLockRow(w, S) == With(w, S, LAMBDA v : TransactionBody(v, 1, 1)).w

AttributeLists ==
  {<<>>, <<"task:1">>, <<"aff4:size", "task:1">>, <<"task:1", "task:1">>}

DeleteRanges == Ranges \cup {<<(<<0>>), None>>}

\* The cells DeleteAttributes is to leave: those whose predicate is not in the
\* list or, when a range is given, whose timestamp is outside [start, end].
Remaining(tbl, attributes, range) ==
  LET start == IF range[1] = None THEN 0 ELSE range[1][1]
      end   == IF range[2] = None THEN MaxInt ELSE range[2][1]
      Listed(p) == \E k \in 1..Len(attributes) : attributes[k] = p
  IN SelectSeq(tbl, LAMBDA r :
       ~(/\ Listed(r.predicate)
         /\ \/ range = <<None, None>>
            \/ (start <= r.timestamp /\ r.timestamp <= end)))

\* C12: DeleteAttributes(S, predicates, start?, end?) removes exactly the cells
\* of S whose predicate is in the list and, with a range, whose timestamp is in
\* [start, end] (start defaulting to 0, end to 2^63-1); every other cell, every
\* other file and the lock row stay as they were; without a range,
\* ResolveMulti(S, [P], ALL) then returns the empty sequence for each P listed.
C12_DeleteExactly ==
  \A S \in CallSubjects, attributes \in AttributeLists, range \in DeleteRanges :
    LET Checked(w0, r) ==
          /\ r.raised = ""
          /\ w0.disk[S].lock # NoLock
          /\ r.w.disk = [w0.disk EXCEPT ![S].tbl =
                           Remaining(w0.disk[S].tbl, attributes, range)]
          /\ range = <<None, None>> =>
                \A k \in 1..Len(attributes) :
                  Returns(All(r.w, S, attributes[k]), <<>>)
        From(w0) == Checked(w0, DeleteAttributesCall(w0, S, attributes, range))
    IN From(WithLockRow(World, S))

\* A DeleteAttributes call with a range has returned and has left the cell of
\* task:1 at the greatest timestamp, which is outside its range.
C12_Witness ==
  /\ last.op = "DeleteAttributes" /\ last.granted /\ last.raised = ""
  /\ Len(disk[last.subject].tbl) = 1
  /\ disk[last.subject].tbl[1].predicate = "task:1"
  /\ disk[last.subject].tbl[1].timestamp = MaxTs

\* The number of cells in the mapping MultiResolveRegex returns.
TotalResults(ret) ==
  LET RECURSIVE Sum(_)
      Sum(S) == IF S = {} THEN 0
                ELSE LET x == CHOOSE y \in S : TRUE
                     IN Len(ret[x]) + Sum(S \ {x})
  IN Sum(Subjects)

\* C13 as stated: for a list of subjects and a limit L > 0, the cells that
\* MultiResolveRegex returns, summed over the subjects, are at most L.
C13_GlobalLimit ==
  \A L \in 1..MaxCells, mode \in {NEWEST_TIMESTAMP, ALL_TIMESTAMPS} :
    LET Capped(r) == r.raised = "" => TotalResults(r.ret) <= L
    IN Capped(MultiResolveRegexCall(World, <<1, NumSubjects - 1>>, <<":">>,
                                    mode, L, {}))

PatternLists ==
  {<<":">>, <<"task:", ":">>, <<":", ":">>, <<"aff4:", "task:">>}

PredicateLists ==
  {<<"task:1">>, <<"aff4:size", "task:1">>, <<"task:1", "task:1">>}

Modes == {NEWEST_TIMESTAMP, ALL_TIMESTAMPS, Range(1, 1)}

\* The limits L > 0 of the calls checked.
Limits == 1..MaxCells

\* With limit L the call returns the first L of what it returns without limit
\* (no more than L elements), and raises only if the call without limit does.
CappedAt(L, limited, unlimited) ==
  /\ Len(limited.ret) <= L
  /\ unlimited.raised = "" =>
       /\ limited.raised = ""
       /\ limited.ret = SubSeq(unlimited.ret, 1,
                               IF Len(unlimited.ret) < L
                                 THEN Len(unlimited.ret) ELSE L)

\* C14: for every subject, every list of patterns (ResolveRegex) or predicates
\* (ResolveMulti), every timestamp mode and every limit L > 0, the sequence
\* returned has at most L elements over all patterns or predicates together:
\* each one is queried with the budget the preceding ones left.
C14_LimitCaps ==
  \A S \in CallSubjects, mode \in Modes :
    /\ \A patterns \in PatternLists :
         LET Each(unlimited) ==
               \A L \in Limits :
                 CappedAt(L, ResolveRegexCall(World, S, patterns, mode, L, TRUE),
                          unlimited)
         IN Each(ResolveRegexCall(World, S, patterns, mode, 0, TRUE))
    /\ \A predicates \in PredicateLists :
         LET Each(unlimited) ==
               \A L \in Limits :
                 CappedAt(L, ResolveMultiCall(World, S, predicates, mode, L, TRUE),
                          unlimited)
         IN Each(ResolveMultiCall(World, S, predicates, mode, 0, TRUE))

\* A subject holds two cells that one pattern matches: with limit 1 the second
\* pattern of a list is not queried, and ResolveMulti stops at the first cell.
C14_Witness ==
  \E S \in CallSubjects :
    /\ Len(disk[S].tbl) = 2
    /\ Len(ResolveRegexCall(World, S, <<":", ":">>, ALL_TIMESTAMPS, 0, TRUE).ret) = 4
    /\ Len(ResolveRegexCall(World, S, <<":", ":">>, ALL_TIMESTAMPS, 1, TRUE).ret) = 1
    /\ Len(ResolveMultiCall(World, S, <<"task:1", "task:1">>, ALL_TIMESTAMPS, 1,
                            TRUE).ret) = 1
    /\ Len(ResolveMultiCall(World, S, <<"task:1", "task:1">>, ALL_TIMESTAMPS, 0,
                            TRUE).ret) = 4

\* The greatest timestamp of the cells of predicate p in the table.
MaxTimestamp(tbl, p) ==
  CHOOSE t \in {tbl[i].timestamp : i \in 1..Len(tbl)} :
    /\ \E i \in 1..Len(tbl) : tbl[i].predicate = p /\ tbl[i].timestamp = t
    /\ \A i \in 1..Len(tbl) : tbl[i].predicate = p => tbl[i].timestamp <= t

\* ret holds exactly one cell for each stored predicate that one of the
\* patterns matches, the cell of the predicate's greatest timestamp, and
\* nothing else.
OnePerMatchingPredicate(tbl, patterns, ret) ==
  LET Matches(p) == \E k \in 1..Len(patterns) :
                      SqliteRegexpFunction(patterns[k], p)
      Stored(p)  == \E i \in 1..Len(tbl) : tbl[i].predicate = p
  IN /\ \A p \in Predicates : (Matches(p) /\ Stored(p)) =>
          /\ Cardinality({i \in 1..Len(ret) : ret[i][1] = p}) = 1
          /\ \A i \in 1..Len(ret) :
               ret[i][1] = p => ret[i][3] = MaxTimestamp(tbl, p)
     /\ \A i \in 1..Len(ret) : Matches(ret[i][1]) /\ Stored(ret[i][1])

\* C15 as stated: ResolveRegex(S, patterns, NEWEST) returns exactly one cell
\* for each predicate of S that at least one pattern matches, its cell of the
\* greatest timestamp, for any number of patterns, overlapping ones included;
\* patterns that match nothing give the empty sequence.
C15_NewestOnePerPredicate ==
  \A S \in CallSubjects, patterns \in PatternLists :
    LET OneEach(r) ==
          r.raised = "" =>
            OnePerMatchingPredicate(disk[S].tbl, patterns, r.ret)
    IN OneEach(ResolveRegexCall(World, S, patterns, NEWEST_TIMESTAMP, 0, TRUE))

(***************************************************************************)
(* Properties of the calls on a transaction object, under SpecFinal.       *)
(***************************************************************************)
\* The step is the return of a call of op on the transaction object i.
Returned(i, ops) == last' # last /\ last'.op \in ops /\ last'.arg.tx = i

C17_TerminalFinal ==
  [][\A i \in TxIds : tx[i].state \in Terminal =>
       /\ tx'[i].state = tx[i].state /\ ~tx'[i].locked
       /\ Returned(i, {"Commit", "Abort", "UpdateLease", "CheckLease"}) =>
            \A s \in Subjects : disk'[s].lock = disk[s].lock]_vars

(***************************************************************************)
(* Properties of the connection locks, under SpecConc.                     *)
(***************************************************************************)
\* The connection has nothing unflushed: its dirty flag is false, and while it
\* is open the file holds every mutation executed on it.
Flushed(cn, d) == ~cn.dirty /\ (cn.open => d[cn.subject] = cn.view)

\* C18: whenever no thread holds the lock of a connection, the connection has
\* no unflushed mutation; a thread that leaves the with block, whether its body
\* returned or raised, has the file hold what the body executed before the
\* lock is released.
C18_FlushOnRelease ==
  [][/\ \A c \in ConnIds : conn'[c].owner = 0 => Flushed(conn'[c], disk')
     /\ \A t \in Threads :
          (pc[t] = "exit" /\ pc'[t] = "idle" /\ conn[local[t].c].open) =>
             /\ disk'[local[t].subject] = conn[local[t].c].view
             /\ conn'[local[t].c].owner = 0]_vars

\* The MultiSet call that raises after its first insert has returned: the cell
\* it inserted is in the file, its connection is open and free, while another
\* thread is inside a with block with mutations not yet flushed.
C18_Witness ==
  /\ last.op = "MultiSet raising" /\ last.raised = "ValueError"
  /\ disk[last.subject].tbl = <<Row("task:1", 1, "x")>>
  /\ hash[last.subject] # 0 /\ conn[hash[last.subject]].owner = 0
  /\ \E c \in ConnIds : conn[c].owner # 0 /\ conn[c].dirty

\* C19 as stated, for the with block: once Close() has completed on a
\* connection, entering its critical section fails; it does not return
\* normally.
C19_ClosedFailsFast ==
  [][\A t \in Threads :
       (pc[t] = "enter" /\ pc'[t] = "body") => conn[local[t].c].open]_vars

\* C20 as stated: no thread that holds the cache-wide lock is waiting for the
\* lock of a connection, so an operation on one subject never waits for the
\* connection lock of another.
C20_CacheLockNeverWaits ==
  \A t \in Threads :
    (cachelock = t /\ pc[t] = "kill") =>
      conn[hash[Head(local[t].kill)]].owner = 0

\* C21 as stated: under any interleaving, the connection Get handed to a
\* thread is open when the thread executes the statements of its with block on
\* it, and a Get that overflows the cache never closes a connection that a
\* thread has obtained and not yet finished using.
C21_NoUseAfterClose ==
  [][\A t \in Threads :
       /\ (pc[t] = "body" /\ pc'[t] = "exit") => conn[local[t].c].open
       /\ ExpireStep(t) =>
            hash[Head(local[t].kill)] \notin HeldByOthers(t)]_vars

\* C22 as stated: Commit, Abort and UpdateLease of a transaction leave the lock
\* row of the subject as it is when the row carries the token of another
\* transaction: a transaction whose lease was taken over never deletes or
\* overwrites the row of the new holder.
C22_OwnLeaseOnly ==
  [][\A i \in TxIds :
       (/\ Returned(i, {"Commit", "Abort", "UpdateLease"})
        /\ disk[tx[i].subject].lock # NoLock
        /\ disk[tx[i].subject].lock[2] # tx[i].token) =>
          disk'[tx[i].subject].lock = disk[tx[i].subject].lock]_vars

(***************************************************************************)
(* Properties of the locks, under SpecLive.                                *)
(***************************************************************************)
\* Thread t has asked for a lock and has not got it yet.
Waiting(t) == pc[t] \in {"get", "kill", "enter"}

\* The thread that holds the lock t waits for: the cache lock at "get", the
\* lock of the evicted connection at "kill" (Close is synchronized), the lock
\* of its own connection at "enter"; 0 when that lock is free or t asks for
\* none.
Awaited(t) ==
  IF pc[t] = "get" THEN cachelock
  ELSE IF pc[t] = "kill" THEN conn[hash[Head(local[t].kill)]].owner
  ELSE IF pc[t] = "enter" THEN conn[local[t].c].owner
  ELSE 0

\* No set of threads in which every thread waits for a lock that a thread of
\* the set holds.
NoWaitCycle ==
  \A C \in (SUBSET Threads) \ {{}} : \E t \in C : Awaited(t) \notin C

\* Every thread that asks for a lock gets it.
Obtains ==
  \A t \in Threads :
    /\ (pc[t] = "get") ~> (pc[t] # "get")
    /\ (pc[t] = "kill") ~> (pc[t] # "kill")
    /\ (pc[t] = "enter") ~> (pc[t] = "body")

\* C23 as stated: no reachable state has a cycle of threads waiting on the
\* cache lock and the connection locks, and every thread that requests a lock
\* eventually obtains it, provided lock holders keep running.
C23_DeadlockFree == []NoWaitCycle /\ Obtains

\* C23, amended: no reachable state has a cycle of waiting threads, and every
\* lock a thread waits for is eventually free again, provided lock holders
\* keep running.  (The waiting thread then competes for it with the others.)
C23_LocksReleased ==
  []NoWaitCycle /\ \A t \in Threads : Waiting(t) ~> (Awaited(t) = 0)

\* A thread holds the cache lock and waits, in an eviction, for the lock of a
\* connection that another thread holds inside its with block.
C23_Witness ==
  \E t \in Threads :
    /\ pc[t] = "kill" /\ cachelock = t
    /\ Awaited(t) \in Threads \ {t}
    /\ pc[Awaited(t)] \in {"body", "exit"}

=========================================================================
